---- MODULE Spec2Model ----
(***************************************************************************)
(* Model of the in-process asyncio job queue of Alchemy                    *)
(* (src/alchemy/queue/worker.py) together with the parser accessors of     *)
(* ModelManager (src/alchemy/models/manager.py) that its dispatcher uses.  *)
(*                                                                         *)
(* One action is one run of a coroutine between two suspension points of   *)
(* the event loop, except that _execute is cut once more, between the      *)
(* assignment of RUNNING and the evaluation of _dispatch, so that every    *)
(* assignment to a job's status is a step of its own.                      *)
(***************************************************************************)
EXTENDS Integers, Sequences, FiniteSets, TLC

\* ---------------------------------------------------------------- bounds
\* Calls of start(), stop(), enqueue() and run_sync() in one behaviour.
MaxCalls == 4

\* ------------------------------------------------------ program constants
max_workers == 2
settings_chunk_size == 512
settings_chunk_overlap == 64

\* An Optional value: None, or Some(v) holding v.
None == <<>>
Some(v) == <<v>>
The(x) == x[1]

PENDING == "pending"
RUNNING == "running"
DONE == "done"
FAILED == "failed"

JobStatus == {PENDING, RUNNING, DONE, FAILED}

\* The task kinds _dispatch matches, and one it does not.
KnownTasks ==
  {"parse_document", "parse_image", "parse_audio", "parse_video", "parse_web"}

TaskInputs == KnownTasks \cup {"bogus"}

\* The payload keys _dispatch reads with p[...] or p.get(...).
PayloadKeys == {"content", "filename", "task", "url"}

\* A payload is modelled by the set of keys it holds.
PayloadInputs == SUBSET PayloadKeys

\* What a capability that was invoked can do: return a ParseResponse, or
\* raise an exception whose str() is the message (possibly the empty one).
Results == {"response"}
Messages == {"", "boom"}

CapReturn(v) == [kind |-> "return", value |-> v]
CapRaise(m) == [kind |-> "raise", msg |-> m]

CapOutcomes == {CapReturn(v) : v \in Results} \cup {CapRaise(m) : m \in Messages}

\* The executing task is cancelled while it awaits the capability:
\* CancelledError is a BaseException, `except Exception` lets it through.
Cancelled == [kind |-> "cancel"]

\* The feature flags of Settings.
SettingsInputs ==
  [load_documents : BOOLEAN, load_media : BOOLEAN, load_web : BOOLEAN]

AllLoaded ==
  [load_documents |-> TRUE, load_media |-> TRUE, load_web |-> TRUE]

VARIABLES
  web,        \* a WebParser.parse_many call: its urls and their _bounded tasks
  client,     \* an AlchemyClient._poll call: its position, deadline and outcome
  chunker,    \* a SemanticChunker: chunk_size, chunk_overlap, and its chunk() calls
  settings,   \* ModelManager.settings (feature flags), fixed at construction
  running,    \* JobQueue._running
  queue,      \* JobQueue._queue: job ids and None sentinels, head first
  jobs,       \* JobQueue._jobs: the registry; a job's id is its index
  workers,    \* JobQueue._workers: the worker tasks, each at a position
  callers,    \* per job: how it was submitted, and the run_sync caller's position
  stopper,    \* the caller of stop()
  stops,      \* number of stop() calls so far
  calls,      \* history: per job, capability invocations made for it
  execs,      \* history: per job, the executors that ran _execute on it
  stamps      \* history: per job, the writes of completed_at

vars ==
  <<web, client, chunker, settings, running, queue, jobs, workers, callers, stopper,
    stops, calls, execs, stamps>>

\* ---------------------------------------------------------------- Job
NewJob(task, payload) ==
  [task |-> task, payload |-> payload, status |-> PENDING,
   result |-> None, error |-> None, completed_at |-> None]

JobIds == 1..Len(jobs)

\* ------------------------------------------------------- ModelManager
\* initialize(): which parsers exist after it, from the feature flags.
DocumentLoaded(s) == s.load_documents

\* An image parser that every configuration loads.
ImageLoaded_Always(s) == TRUE

\* The image parser is loaded under the documents flag (lines 37-39).
ImageLoaded(s) == s.load_documents
MediaLoaded(s) == s.load_media
WebLoaded(s) == s.load_web

\* ---------------------------------------------------------- _dispatch
Invoke(cap) == [kind |-> "invoke", cap |-> cap]

\* Reading every key with p.get: a missing key raises nothing.
RequireKeys_Get(payload, keys, cap) == [kind |-> "invoke", cap |-> cap]

\* p["k"] for the keys in order: the first missing one raises KeyError,
\* whose str() is the quoted key.
RECURSIVE RequireKeys(_, _, _)
RequireKeys(payload, keys, cap) ==
  IF keys = <<>> THEN Invoke(cap)
  ELSE IF Head(keys) \notin payload
       THEN CapRaise("'" \o Head(keys) \o "'")
       ELSE RequireKeys(payload, Tail(keys), cap)

\* The keys each case of _dispatch reads with p[...], in evaluation order
\* (every other key is read with p.get and has a default).
RequiredKeys(task) ==
  CASE task = "parse_document" -> <<"content", "filename">>
    [] task = "parse_image" -> <<"content", "filename">>
    [] task = "parse_audio" -> <<"content", "filename">>
    [] task = "parse_video" -> <<"content", "filename">>
    [] task = "parse_web" -> <<"url">>
    [] OTHER -> <<>>

\* A default case that hands the job to the document parser.
UnknownTask_Fallback(task) == [kind |-> "invoke", cap |-> "document_parser.parse"]

\* `case _`: raise ValueError(f"Unknown task: {job.task}").
UnknownTask(task) == CapRaise("Unknown task: " \o task)

\* The result of evaluating _dispatch up to the capability call: either the
\* capability is invoked, or an exception was raised before it. The parser
\* accessor is evaluated before the arguments.
Dispatch(job, s) ==
  CASE job.task = "parse_document" ->
         IF ~DocumentLoaded(s)
         THEN CapRaise("Document parser not loaded. Start server with --documents flag.")
         ELSE RequireKeys(job.payload, RequiredKeys(job.task), "document_parser.parse")
    [] job.task = "parse_image" ->
         IF ~ImageLoaded(s)
         THEN CapRaise("Image parser not loaded.")
         ELSE RequireKeys(job.payload, RequiredKeys(job.task), "image_parser.parse")
    [] job.task = "parse_audio" ->
         IF ~MediaLoaded(s)
         THEN CapRaise("Media parser not loaded. Start server with --media flag.")
         ELSE RequireKeys(job.payload, RequiredKeys(job.task), "media_parser.parse_audio")
    [] job.task = "parse_video" ->
         IF ~MediaLoaded(s)
         THEN CapRaise("Media parser not loaded. Start server with --media flag.")
         ELSE RequireKeys(job.payload, RequiredKeys(job.task), "media_parser.parse_video")
    [] job.task = "parse_web" ->
         IF ~WebLoaded(s)
         THEN CapRaise("Web parser not loaded. Start server with --web flag.")
         ELSE RequireKeys(job.payload, RequiredKeys(job.task), "web_parser.parse")
    [] OTHER -> UnknownTask(job.task)

\* ----------------------------------------------------------- _execute
\* time.time(): some timestamp, never None.
Now == 1

\* _execute without its first assignment: the job stays PENDING while it runs.
ExecuteBegin_NoRunning(job) == job

\* job.status = RUNNING (line 96).
ExecuteBegin(job) == [job EXCEPT !.status = RUNNING]

\* The try/except/finally of _execute, given how the awaited _dispatch ended.
ExecuteEnd(job, outcome, now) ==
  CASE outcome.kind = "return" ->
         [job EXCEPT !.result = Some(outcome.value), !.status = DONE,
                      !.completed_at = Some(now)]
    [] outcome.kind = "raise" ->
         [job EXCEPT !.error = Some(outcome.msg), !.status = FAILED,
                      !.completed_at = Some(now)]
    [] OTHER ->
         [job EXCEPT !.completed_at = Some(now)]

\* ------------------------------------------------------- asyncio.Queue
\* A put that loses the item.
QueuePut_Drop(q, item) == q

\* A get that leaves the item in the queue.
QueueGet_Peek(q) == q

\* A put at the head of the queue.
QueuePut_Front(q, item) == <<item>> \o q

QueuePut(q, item) == Append(q, item)
QueueHead(q) == Head(q)
QueueGet(q) == Tail(q)

\* n sentinels, as stop() puts them.
RECURSIVE Sentinels(_)
Sentinels(n) == IF n = 0 THEN <<>> ELSE <<None>> \o Sentinels(n - 1)

\* queue_size(): qsize() counts every entry of the queue.
queue_size == Len(queue)

\* ============================================================ chunker
\* Text is a sequence of one-character strings.
Whitespace == {" ", "\n", "\t"}

Least(S) == CHOOSE x \in S : \A y \in S : x <= y
Greatest(S) == CHOOSE x \in S : \A y \in S : y <= x

\* The elements of a set of positions, in increasing order.
Ascending(S) ==
  LET rank == [x \in S |-> Cardinality({y \in S : y < x}) + 1]
  IN [k \in 1..Cardinality(S) |-> CHOOSE x \in S : rank[x] = k]

\* `not text.strip()`: nothing but whitespace (or nothing at all).
Blank(text) == \A i \in 1..Len(text) : text[i] \in Whitespace

\* A strip that leaves the text as it is.
strip_Keep(text) == text

\* str.strip(): without leading and trailing whitespace.
RECURSIVE FirstInk(_, _)
FirstInk(text, i) ==
  IF text[i] \notin Whitespace THEN i ELSE FirstInk(text, i + 1)

RECURSIVE LastInk(_, _)
LastInk(text, i) ==
  IF text[i] \notin Whitespace THEN i ELSE LastInk(text, i - 1)

strip(text) ==
  IF Blank(text)
  THEN <<>>
  ELSE SubSeq(text, FirstInk(text, 1), LastInk(text, Len(text)))

\* _estimate_tokens: max(1, len(text) // 4).
estimate_tokens(text) ==
  IF Len(text) \div 4 >= 1 THEN Len(text) \div 4 ELSE 1

\* "\n\n".join(paras)
RECURSIVE Join(_)
Join(paras) ==
  IF Len(paras) = 0 THEN <<>>
  ELSE IF Len(paras) = 1 THEN paras[1]
  ELSE paras[1] \o <<"\n", "\n">> \o Join(Tail(paras))

\* ^ under re.MULTILINE: the start of the text or just after a newline.
LineStart(text, i) == i = 1 \/ text[i - 1] = "\n"

\* The last position of the line that position p is on: `.+` runs up to it
\* and `$` matches after it.
LineEnd(text, p) ==
  Least({k \in p..Len(text) : k = Len(text) \/ text[k + 1] = "\n"})

\* The number of '#' from position i on.
RECURSIVE HashRun(_, _)
HashRun(text, i) ==
  IF i > Len(text) \/ text[i] # "#" THEN 0 ELSE 1 + HashRun(text, i + 1)

\* The first position from s on that holds no whitespace, or Len(text) + 1.
RECURSIVE SkipSpace(_, _)
SkipSpace(text, s) ==
  IF s > Len(text) \/ text[s] \notin Whitespace
  THEN s
  ELSE SkipSpace(text, s + 1)

\* Where `(.+)` can begin for `#{1,3}\s+(.+)$` tried at position i: after
\* one to three '#' not followed by a fourth, `\s+` takes at least one
\* whitespace character (newlines included) and as many as leave `.+` a
\* character that is not a newline.
LabelStarts(text, i) ==
  LET h == HashRun(text, i)
      s == i + h
      e == SkipSpace(text, s)
  IN IF h \in 1..3
     THEN {p \in (s + 1)..e : p <= Len(text) /\ text[p] # "\n"}
     ELSE {}

\* The match of heading_pattern at position i: start, where group(2) starts,
\* and the last position matched.
MatchAt(text, i) ==
  LET p == Greatest(LabelStarts(text, i))
  IN [start |-> i, label |-> p, last |-> LineEnd(text, p)]

\* heading_pattern.finditer(text): the non-overlapping matches, left to right.
RECURSIVE finditer(_, _)
finditer(text, pos) ==
  LET found == {i \in pos..Len(text) :
                  LineStart(text, i) /\ LabelStarts(text, i) # {}}
  IN IF found = {}
     THEN <<>>
     ELSE LET m == MatchAt(text, Least(found))
          IN <<m>> \o finditer(text, m.last + 1)

\* _split_by_headings: (title, text) pairs; the preamble and the bodies are
\* stripped and dropped when empty, a text without headings is one section
\* as it is.
split_by_headings(text) ==
  LET matches == finditer(text, 1)
      preamble == strip(SubSeq(text, 1, matches[1].start - 1))
      Body(i) ==
        strip(SubSeq(text, matches[i].last + 1,
                     IF i + 1 <= Len(matches)
                     THEN matches[i + 1].start - 1
                     ELSE Len(text)))
      Heading(i) == strip(SubSeq(text, matches[i].label, matches[i].last))
      kept == Ascending({i \in 1..Len(matches) : Body(i) # <<>>})
  IN IF matches = <<>>
     THEN << [title |-> None, text |-> text] >>
     ELSE (IF preamble # <<>>
           THEN << [title |-> None, text |-> preamble] >>
           ELSE <<>>)
          \o [k \in 1..Len(kept) |->
                [title |-> Some(Heading(kept[k])), text |-> Body(kept[k])]]

\* re.split(r"\n\n+", text): the pieces between runs of two or more
\* newlines; then `p.strip() for p in ... if p.strip()`.
Paragraphs(text) ==
  LET n == Len(text)
      sep == {i \in 1..n :
                /\ text[i] = "\n"
                /\ \/ (i > 1 /\ text[i - 1] = "\n")
                   \/ (i < n /\ text[i + 1] = "\n")}
      starts == Ascending({i \in 1..n :
                  i \notin sep /\ (i = 1 \/ (i - 1) \in sep)})
      Piece(i) == SubSeq(text, i,
                    Least({k \in i..n : k = n \/ (k + 1) \in sep}))
      inked == Ascending({k \in 1..Len(starts) :
                  ~Blank(Piece(starts[k]))})
  IN [k \in 1..Len(inked) |-> strip(Piece(starts[inked[k]]))]

\* An overlap loop that appends what it keeps: last paragraph first.
RECURSIVE Overlap_Reversed(_, _, _, _)
Overlap_Reversed(paras, i, kept, chunk_overlap) ==
  IF i = 0 THEN kept
  ELSE IF kept.tokens + estimate_tokens(paras[i]) > chunk_overlap THEN kept
  ELSE Overlap_Reversed(paras, i - 1,
                        [paras |-> Append(kept.paras, paras[i]),
                         tokens |-> kept.tokens + estimate_tokens(paras[i])],
                        chunk_overlap)

\* The overlap loop: walking back from paragraph i of the flushed window,
\* keep paragraphs while their estimates stay within chunk_overlap.
RECURSIVE Overlap(_, _, _, _)
Overlap(paras, i, kept, chunk_overlap) ==
  IF i = 0 THEN kept
  ELSE IF kept.tokens + estimate_tokens(paras[i]) > chunk_overlap THEN kept
  ELSE Overlap(paras, i - 1,
               [paras |-> <<paras[i]>> \o kept.paras,
                tokens |-> kept.tokens + estimate_tokens(paras[i])],
               chunk_overlap)

\* A paragraph loop that flushes only once the window is over chunk_size.
RECURSIVE Windows_Late(_, _, _, _, _)
Windows_Late(paragraphs, k, w, chunk_size, chunk_overlap) ==
  IF k > Len(paragraphs)
  THEN IF w.current_paras # <<>>
       THEN Append(w.windows, w.current_paras)
       ELSE w.windows
  ELSE LET para == paragraphs[k]
           para_tokens == estimate_tokens(para)
           flush == w.current_tokens > chunk_size /\ w.current_paras # <<>>
           kept == Overlap(w.current_paras, Len(w.current_paras),
                           [paras |-> <<>>, tokens |-> 0], chunk_overlap)
           windows == IF flush THEN Append(w.windows, w.current_paras)
                      ELSE w.windows
           paras == IF flush THEN kept.paras ELSE w.current_paras
           tokens == IF flush THEN kept.tokens ELSE w.current_tokens
       IN Windows_Late(paragraphs, k + 1,
                       [windows |-> windows,
                        current_paras |-> Append(paras, para),
                        current_tokens |-> tokens + para_tokens],
                       chunk_size, chunk_overlap)

\* A paragraph loop without the flush of what is left at the end.
RECURSIVE Windows_NoTail(_, _, _, _, _)
Windows_NoTail(paragraphs, k, w, chunk_size, chunk_overlap) ==
  IF k > Len(paragraphs)
  THEN w.windows
  ELSE LET para == paragraphs[k]
           para_tokens == estimate_tokens(para)
           flush == w.current_tokens + para_tokens > chunk_size
                      /\ w.current_paras # <<>>
           kept == Overlap(w.current_paras, Len(w.current_paras),
                           [paras |-> <<>>, tokens |-> 0], chunk_overlap)
           windows == IF flush THEN Append(w.windows, w.current_paras)
                      ELSE w.windows
           paras == IF flush THEN kept.paras ELSE w.current_paras
           tokens == IF flush THEN kept.tokens ELSE w.current_tokens
       IN Windows_NoTail(paragraphs, k + 1,
                         [windows |-> windows,
                          current_paras |-> Append(paras, para),
                          current_tokens |-> tokens + para_tokens],
                         chunk_size, chunk_overlap)

\* A paragraph loop that tests the size again after seeding, and flushes the
\* seed by itself when the paragraph does not fit behind it.
RECURSIVE Windows_Recheck(_, _, _, _, _)
Windows_Recheck(paragraphs, k, w, chunk_size, chunk_overlap) ==
  IF k > Len(paragraphs)
  THEN IF w.current_paras # <<>>
       THEN Append(w.windows, w.current_paras)
       ELSE w.windows
  ELSE LET para == paragraphs[k]
           para_tokens == estimate_tokens(para)
           flush == w.current_tokens + para_tokens > chunk_size
                      /\ w.current_paras # <<>>
           kept == Overlap(w.current_paras, Len(w.current_paras),
                           [paras |-> <<>>, tokens |-> 0], chunk_overlap)
           again == flush /\ kept.tokens + para_tokens > chunk_size
                      /\ kept.paras # <<>>
           windows == IF again
                      THEN w.windows \o <<w.current_paras, kept.paras>>
                      ELSE IF flush THEN Append(w.windows, w.current_paras)
                      ELSE w.windows
           paras == IF again THEN <<>>
                    ELSE IF flush THEN kept.paras ELSE w.current_paras
           tokens == IF again THEN 0
                     ELSE IF flush THEN kept.tokens ELSE w.current_tokens
       IN Windows_Recheck(paragraphs, k + 1,
                          [windows |-> windows,
                           current_paras |-> Append(paras, para),
                           current_tokens |-> tokens + para_tokens],
                          chunk_size, chunk_overlap)

\* The paragraph loop of _sliding_window from paragraph k on; w holds
\* windows, current_paras and current_tokens.
RECURSIVE Windows(_, _, _, _, _)
Windows(paragraphs, k, w, chunk_size, chunk_overlap) ==
  IF k > Len(paragraphs)
  THEN IF w.current_paras # <<>>
       THEN Append(w.windows, w.current_paras)
       ELSE w.windows
  ELSE LET para == paragraphs[k]
           para_tokens == estimate_tokens(para)
           flush == w.current_tokens + para_tokens > chunk_size
                      /\ w.current_paras # <<>>
           kept == Overlap(w.current_paras, Len(w.current_paras),
                           [paras |-> <<>>, tokens |-> 0], chunk_overlap)
           windows == IF flush THEN Append(w.windows, w.current_paras)
                      ELSE w.windows
           paras == IF flush THEN kept.paras ELSE w.current_paras
           tokens == IF flush THEN kept.tokens ELSE w.current_tokens
       IN Windows(paragraphs, k + 1,
                  [windows |-> windows,
                   current_paras |-> Append(paras, para),
                   current_tokens |-> tokens + para_tokens],
                  chunk_size, chunk_overlap)

\* A section passed on whole, whatever its size.
sliding_window_Whole(text, chunk_size, chunk_overlap) == <<text>>

\* _sliding_window: the windows, each joined with a blank line.
sliding_window(text, chunk_size, chunk_overlap) ==
  LET windows == Windows(Paragraphs(text), 1,
                         [windows |-> <<>>, current_paras |-> <<>>,
                          current_tokens |-> 0],
                         chunk_size, chunk_overlap)
  IN [k \in 1..Len(windows) |-> Join(windows[k])]

DocumentChunk(index, text, section, tokens) ==
  [index |-> index, text |-> text, section |-> section, tokens |-> tokens]

\* Sub-chunks numbered from 0 in every section.
SectionChunks_Restart(section, index, chunk_size, chunk_overlap) ==
  LET token_count == estimate_tokens(section.text)
      sub_chunks == sliding_window(section.text, chunk_size, chunk_overlap)
  IN IF token_count <= chunk_size
     THEN << DocumentChunk(index, strip(section.text), section.title,
                           token_count) >>
     ELSE [k \in 1..Len(sub_chunks) |->
             DocumentChunk(k - 1, strip(sub_chunks[k]), section.title,
                           estimate_tokens(sub_chunks[k]))]

\* A section loop that splits a section already at chunk_size.
SectionChunks_Strict(section, index, chunk_size, chunk_overlap) ==
  LET token_count == estimate_tokens(section.text)
      sub_chunks == sliding_window(section.text, chunk_size, chunk_overlap)
  IN IF token_count < chunk_size
     THEN << DocumentChunk(index, strip(section.text), section.title,
                           token_count) >>
     ELSE [k \in 1..Len(sub_chunks) |->
             DocumentChunk(index + k - 1, strip(sub_chunks[k]), section.title,
                           estimate_tokens(sub_chunks[k]))]

\* The body of the section loop of chunk(): the chunks one section adds,
\* numbered from the running index.
SectionChunks(section, index, chunk_size, chunk_overlap) ==
  LET token_count == estimate_tokens(section.text)
      sub_chunks == sliding_window(section.text, chunk_size, chunk_overlap)
  IN IF token_count <= chunk_size
     THEN << DocumentChunk(index, strip(section.text), section.title,
                           token_count) >>
     ELSE [k \in 1..Len(sub_chunks) |->
             DocumentChunk(index + k - 1, strip(sub_chunks[k]), section.title,
                           estimate_tokens(sub_chunks[k]))]

\* Chunks put in front of the list.
ExtendChunks_Front(chunks, new) == new \o chunks

\* chunks.append(...) for each chunk of a section.
ExtendChunks(chunks, new) == chunks \o new

\* The section loop of chunk() from section k on.
RECURSIVE ChunkSections(_, _, _, _, _, _)
ChunkSections(sections, k, chunks, index, chunk_size, chunk_overlap) ==
  IF k > Len(sections) THEN chunks
  ELSE LET new == SectionChunks(sections[k], index, chunk_size, chunk_overlap)
       IN ChunkSections(sections, k + 1, ExtendChunks(chunks, new),
                        index + Len(new), chunk_size, chunk_overlap)

\* chunk(text) without the test for an empty or all-whitespace text.
chunk_Unguarded(text, chunk_size, chunk_overlap) ==
  ChunkSections(split_by_headings(text), 1, <<>>, 0, chunk_size, chunk_overlap)

\* chunk(text)
chunk(text, chunk_size, chunk_overlap) ==
  IF text = <<>> \/ Blank(text)
  THEN <<>>
  ELSE ChunkSections(split_by_headings(text), 1, <<>>, 0,
                     chunk_size, chunk_overlap)

\* ----------------------------------------------------- chunker inputs
\* Texts are put together from at most MaxPieces of these lines: two
\* headings, a one-token and a two-token paragraph followed by a blank line,
\* a short line, and a '#' alone on its line.
MaxPieces == 5

Pieces ==
  { <<"#", " ", "A", "\n">>,
    <<"#", "#", " ", "B", "\n">>,
    <<"w", "w", "w", "w", "\n", "\n">>,
    <<"v", "v", "v", "v", "v", "v", "v", "v", "\n", "\n">>,
    <<"x", "\n">>,
    <<"#", "\n">> }

RECURSIVE Concat(_)
Concat(pieces) ==
  IF pieces = <<>> THEN <<>> ELSE Head(pieces) \o Concat(Tail(pieces))

\* Texts of nothing but whitespace, at most MaxBlank characters long.
MaxBlank == 3

BlankTexts == UNION {[1..n -> Whitespace] : n \in 1..MaxBlank}

\* Texts with gaps, put together from at most MaxGapPieces of: a heading,
\* a paragraph, a whitespace-only paragraph, one more newline, and a
\* paragraph with whitespace around it.
MaxGapPieces == 4

GapPieces ==
  { <<"#", " ", "A", "\n">>,
    <<"w", "w", "w", "w", "\n", "\n">>,
    <<" ", "\n", "\n">>,
    <<"\n">>,
    <<"\t", "x", " ", "\n", "\n">> }

GapTexts ==
  {Concat(ps) : ps \in UNION {[1..n -> GapPieces] : n \in 0..MaxGapPieces}}

TextInputs ==
  {Concat(ps) : ps \in UNION {[1..n -> Pieces] : n \in 0..MaxPieces}}
    \cup BlankTexts \cup GapTexts

ChunkSizes == {1, 2}
ChunkOverlaps == {0, 1, 2}

\* The scenario texts: a level-1 heading "A", about ScenarioWords times the
\* same word, a level-1 heading "B" and "Short."; the words are separated
\* by a space or a newline, with a blank line after every `per` words
\* (none when per is 0).
ScenarioWords == 1000
WordsSlack == 5

Word == <<"w", "o", "r", "d">>
WordSeparators == {<<" ">>, <<"\n">>}
ParagraphWords == {0, 10, 25, 50, 100, 250, 500}

Repeat(unit, n) ==
  [i \in 1..(n * Len(unit)) |-> unit[((i - 1) % Len(unit)) + 1]]

ScenarioBody(n, per, sep) ==
  IF per = 0
  THEN Repeat(Word \o sep, n)
  ELSE Repeat(Repeat(Word \o sep, per) \o <<"\n", "\n">>, n \div per)
         \o Repeat(Word \o sep, n % per)

ScenarioText(n, per, sep) ==
  <<"#", " ", "A", "\n">> \o ScenarioBody(n, per, sep)
    \o <<"\n", "#", " ", "B", "\n", "S", "h", "o", "r", "t", ".">>

ScenarioTexts ==
  {ScenarioText(n, per, sep) :
     n \in (ScenarioWords - WordsSlack)..(ScenarioWords + WordsSlack),
     per \in ParagraphWords, sep \in WordSeparators}

\* SemanticChunker(chunk_size, chunk_overlap), with the calls made on it.
NewChunker(size, overlap) ==
  [chunk_size |-> size, chunk_overlap |-> overlap, calls |-> <<>>]

\* --------------------------------------------------------------- Init
NewWorker == [pc |-> "loop", job |-> None]

Init ==
  /\ web = None
  /\ client = None
  /\ chunker = NewChunker(settings_chunk_size, settings_chunk_overlap)
  /\ settings \in SettingsInputs
  /\ running = FALSE
  /\ queue = <<>>
  /\ jobs = <<>>
  /\ workers = <<>>
  /\ callers = <<>>
  /\ stopper = [pc |-> "idle", inflight |-> {}]
  /\ stops = 0
  /\ calls = <<>>
  /\ execs = <<>>
  /\ stamps = <<>>

\* -------------------------------------------------------------- start
\* start(): _running = True and max_workers new tasks, none of which has
\* run yet.
\* A start() that spawns one task too many.
Start_OneMore ==
  /\ stopper.pc # "joining"
  /\ running' = TRUE
  /\ workers' = workers \o [i \in 1..(max_workers + 1) |-> NewWorker]
  /\ UNCHANGED <<web, client, chunker, settings, queue, jobs, callers, stopper, stops,
                 calls, execs, stamps>>

Start ==
  /\ stopper.pc # "joining"
  /\ running' = TRUE
  /\ workers' = workers \o [i \in 1..max_workers |-> NewWorker]
  /\ UNCHANGED <<web, client, chunker, settings, queue, jobs, callers, stopper, stops,
                 calls, execs, stamps>>

\* ------------------------------------------------- enqueue / run_sync
\* self._jobs[job.id] = job, for a fresh job whose id is the next index.
Register(job, caller, executors) ==
  /\ jobs' = Append(jobs, job)
  /\ callers' = Append(callers, caller)
  /\ calls' = Append(calls, 0)
  /\ execs' = Append(execs, executors)
  /\ stamps' = Append(stamps, 0)

\* An enqueue that puts the job on the queue and does not register it.
Enqueue_Unregistered(task, payload) ==
  /\ queue' = QueuePut(queue, Some(Len(jobs) + 1))
  /\ UNCHANGED <<web, client, chunker, settings, running, jobs, workers,
                 callers, stopper, stops, calls, execs, stamps>>

\* An enqueue that a stopped queue turns down.
Enqueue_Closed(task, payload) ==
  /\ running
  /\ Register(NewJob(task, payload),
              [via |-> "enqueue", pc |-> "none", outcome |-> [kind |-> "none", value |-> None]], {})
  /\ queue' = QueuePut(queue, Some(Len(jobs) + 1))
  /\ UNCHANGED <<web, client, chunker, settings, running, workers, stopper, stops>>

\* enqueue(job): register, then put on the (unbounded) queue.
Enqueue(task, payload) ==
  /\ Register(NewJob(task, payload),
              [via |-> "enqueue", pc |-> "none", outcome |-> [kind |-> "none", value |-> None]], {})
  /\ queue' = QueuePut(queue, Some(Len(jobs) + 1))
  /\ UNCHANGED <<web, client, chunker, settings, running, workers, stopper, stops>>

\* get_job(job_id): self._jobs.get(job_id), the job or None.
\* A lookup that forgets finished jobs.
get_job_Unfinished(id) ==
  IF id \in JobIds /\ jobs[id].status \notin {DONE, FAILED}
  THEN Some(jobs[id])
  ELSE None

get_job(id) == IF id \in JobIds THEN Some(jobs[id]) ELSE None

\* A run_sync that hands the job to the workers' queue as well.
RunSyncCall_Queued(task, payload) ==
  /\ Register(ExecuteBegin(NewJob(task, payload)),
              [via |-> "run_sync", pc |-> "dispatch", outcome |-> [kind |-> "none", value |-> None]],
              {<<"caller", Len(jobs) + 1>>})
  /\ queue' = QueuePut(queue, Some(Len(jobs) + 1))
  /\ UNCHANGED <<web, client, chunker, settings, running, workers, stopper, stops>>

\* run_sync(job) up to the evaluation of _dispatch: register, and _execute
\* sets RUNNING on the caller's own task.
RunSyncCall(task, payload) ==
  /\ Register(ExecuteBegin(NewJob(task, payload)),
              [via |-> "run_sync", pc |-> "dispatch", outcome |-> [kind |-> "none", value |-> None]],
              {<<"caller", Len(jobs) + 1>>})
  /\ UNCHANGED <<web, client, chunker, settings, running, queue, workers, stopper, stops>>

\* What run_sync does after _execute: `if job.error: raise RuntimeError(job.error)`
\* and otherwise `return job.result`. None and the empty string are falsy.
Truthy(x) == x # None /\ x # Some("")

RunSyncResult(job) ==
  IF Truthy(job.error)
  THEN [kind |-> "raised", value |-> job.error]
  ELSE [kind |-> "returned", value |-> job.result]

\* The step of _execute that ends it, on job j, with the history it leaves.
Finish(j, outcome) ==
  /\ jobs' = [jobs EXCEPT ![j] = ExecuteEnd(jobs[j], outcome, Now)]
  /\ stamps' = [stamps EXCEPT ![j] = @ + 1]

\* The evaluation of _dispatch on job j: it raises before any capability is
\* called and _execute ends, or the capability is called and awaited.
Evaluate(j) ==
  LET d == Dispatch(jobs[j], settings) IN
    IF d.kind = "raise"
    THEN Finish(j, d) /\ UNCHANGED calls
    ELSE /\ calls' = [calls EXCEPT ![j] = @ + 1]
         /\ UNCHANGED <<jobs, stamps>>

Raises(j) == Dispatch(jobs[j], settings).kind = "raise"

\* run_sync: the caller's task evaluates _dispatch.
RunSyncDispatch(j) ==
  /\ j \in JobIds
  /\ callers[j].pc = "dispatch"
  /\ Evaluate(j)
  /\ callers' =
       [callers EXCEPT ![j] =
          IF Raises(j)
          THEN [@ EXCEPT !.pc = "done", !.outcome = RunSyncResult(jobs'[j])]
          ELSE [@ EXCEPT !.pc = "await"]]
  /\ UNCHANGED <<web, client, chunker, settings, running, queue, workers, stopper, stops, execs>>

\* run_sync: the awaited capability returns or raises, _execute ends and
\* run_sync returns or raises.
RunSyncFinish(j, outcome) ==
  /\ j \in JobIds
  /\ callers[j].pc = "await"
  /\ Finish(j, outcome)
  /\ callers' = [callers EXCEPT ![j] =
                   [@ EXCEPT !.pc = "done", !.outcome = RunSyncResult(jobs'[j])]]
  /\ UNCHANGED <<web, client, chunker, settings, running, queue, workers, stopper, stops,
                 calls, execs>>

\* ------------------------------------------------------------ _worker
WorkerIds == 1..Len(workers)

\* A worker loop that a failed job ends.
WorkerAfterExecute_Crash(outcome) ==
  IF outcome.kind = "return" THEN "loop" ELSE "exited"

\* A worker that serves one job and ends.
WorkerAfterExecute_OneShot(outcome) == "exited"

\* Where the worker loop goes after `await self._execute(job)`: back to the
\* loop test, or out of the loop when CancelledError came through.
WorkerAfterExecute(outcome) ==
  IF outcome.kind = "cancel" THEN "exited" ELSE "loop"

\* job = await self._queue.get() has an item: the sentinel breaks the loop,
\* a job is passed to _execute, which sets RUNNING.
Take(w) ==
  LET item == QueueHead(queue) IN
    /\ queue' = QueueGet(queue)
    /\ IF item = None
       THEN /\ workers' = [workers EXCEPT ![w] = [pc |-> "exited", job |-> None]]
            /\ UNCHANGED <<jobs, execs>>
       ELSE /\ workers' = [workers EXCEPT ![w] = [pc |-> "dispatch", job |-> item]]
            /\ jobs' = [jobs EXCEPT ![The(item)] = ExecuteBegin(@)]
            /\ execs' = [execs EXCEPT ![The(item)] = @ \cup {<<"worker", w>>}]

\* The loop test `while self._running`, then get(): exit, block on the empty
\* queue, or take the head.
WorkerLoop(w) ==
  /\ w \in WorkerIds
  /\ workers[w].pc = "loop"
  /\ IF ~running
     THEN /\ workers' = [workers EXCEPT ![w] = [pc |-> "exited", job |-> None]]
          /\ UNCHANGED <<queue, jobs, execs>>
     ELSE IF queue = <<>>
          THEN /\ workers' = [workers EXCEPT ![w] = [pc |-> "get", job |-> None]]
               /\ UNCHANGED <<queue, jobs, execs>>
          ELSE Take(w)
  /\ UNCHANGED <<web, client, chunker, settings, running, callers, stopper, stops,
                 calls, stamps>>

\* A worker blocked in get() is woken by an item; _running is not read again.
WorkerWake(w) ==
  /\ w \in WorkerIds
  /\ workers[w].pc = "get"
  /\ queue # <<>>
  /\ Take(w)
  /\ UNCHANGED <<web, client, chunker, settings, running, callers, stopper, stops,
                 calls, stamps>>

\* The worker's _execute evaluates _dispatch.
WorkerDispatch(w) ==
  /\ w \in WorkerIds
  /\ workers[w].pc = "dispatch"
  /\ Evaluate(The(workers[w].job))
  /\ workers' =
       [workers EXCEPT ![w] =
          IF Raises(The(workers[w].job))
          THEN [pc |-> WorkerAfterExecute(Dispatch(jobs[The(workers[w].job)], settings)),
                job |-> None]
          ELSE [@ EXCEPT !.pc = "await"]]
  /\ UNCHANGED <<web, client, chunker, settings, running, queue, callers, stopper, stops, execs>>

\* The capability awaited by the worker's _execute returns or raises.
WorkerFinish(w, outcome) ==
  /\ w \in WorkerIds
  /\ workers[w].pc = "await"
  /\ Finish(The(workers[w].job), outcome)
  /\ workers' = [workers EXCEPT ![w] = [pc |-> WorkerAfterExecute(outcome), job |-> None]]
  /\ UNCHANGED <<web, client, chunker, settings, running, queue, callers, stopper, stops,
                 calls, execs>>

\* --------------------------------------------------------------- stop
Busy(w) == workers[w].pc \in {"dispatch", "await"}

\* stop() up to its gather: _running = False and one sentinel per entry of
\* _workers; put() on the unbounded queue never suspends.
StopCall ==
  /\ stopper.pc # "joining"
  /\ running' = FALSE
  /\ queue' = queue \o Sentinels(Len(workers))
  /\ stopper' = [pc |-> "joining",
                 inflight |-> {The(workers[w].job) : w \in {v \in WorkerIds : Busy(v)}}]
  /\ stops' = stops + 1
  /\ UNCHANGED <<web, client, chunker, settings, jobs, workers, callers, calls, execs, stamps>>

\* A stop() that does not wait for the workers.
StopReturn_NoJoin ==
  /\ stopper.pc = "joining"
  /\ stopper' = [stopper EXCEPT !.pc = "returned"]
  /\ UNCHANGED <<web, client, chunker, settings, running, queue, jobs, workers, callers,
                 stops, calls, execs, stamps>>

\* gather(*self._workers) is over: every worker task is done.
StopReturn ==
  /\ stopper.pc = "joining"
  /\ \A w \in WorkerIds : workers[w].pc = "exited"
  /\ stopper' = [stopper EXCEPT !.pc = "returned"]
  /\ UNCHANGED <<web, client, chunker, settings, running, queue, jobs, workers, callers,
                 stops, calls, execs, stamps>>

\* --------------------------------------------------------- cancellation
\* The task of worker w is cancelled while it is suspended: in get(), or in
\* the capability, where _execute's finally still runs.
CancelWorker(w) ==
  /\ w \in WorkerIds
  /\ workers[w].pc \in {"get", "await"}
  /\ IF workers[w].pc = "await"
     THEN Finish(The(workers[w].job), Cancelled)
     ELSE UNCHANGED <<jobs, stamps>>
  /\ workers' = [workers EXCEPT ![w] = [pc |-> WorkerAfterExecute(Cancelled), job |-> None]]
  /\ UNCHANGED <<web, client, chunker, settings, running, queue, callers, stopper, stops,
                 calls, execs>>

\* The task that called run_sync is cancelled while the capability is in
\* flight: _execute's finally runs and CancelledError leaves run_sync.
CancelCaller(j) ==
  /\ j \in JobIds
  /\ callers[j].pc = "await"
  /\ Finish(j, Cancelled)
  /\ callers' = [callers EXCEPT ![j] =
                   [@ EXCEPT !.pc = "done", !.outcome = [kind |-> "cancelled", value |-> None]]]
  /\ UNCHANGED <<web, client, chunker, settings, running, queue, workers, stopper, stops,
                 calls, execs>>

\* ------------------------------------------------------ specifications
\* The jobs submitted under Spec: one whose capability is invoked, and one
\* that _dispatch rejects before any capability is called.
JobInputs == {<<"parse_document", {"content", "filename"}>>, <<"bogus", {}>>}

\* The public operations called so far.
Calls == Len(workers) \div max_workers + stops + Len(jobs)

Next ==
  \/ Calls < MaxCalls /\ Start
  \/ \E i \in JobInputs : Calls < MaxCalls /\ Enqueue(i[1], i[2])
  \/ \E i \in JobInputs : Calls < MaxCalls /\ RunSyncCall(i[1], i[2])
  \/ \E j \in JobIds : RunSyncDispatch(j)
  \/ \E j \in JobIds, o \in CapOutcomes : RunSyncFinish(j, o)
  \/ \E w \in WorkerIds : WorkerLoop(w)
  \/ \E w \in WorkerIds : WorkerWake(w)
  \/ \E w \in WorkerIds : WorkerDispatch(w)
  \/ \E w \in WorkerIds, o \in CapOutcomes : WorkerFinish(w, o)
  \/ Calls < MaxCalls /\ StopCall
  \/ StopReturn

InitLoaded == Init /\ settings = AllLoaded

Spec == InitLoaded /\ [][Next]_vars

\* Spec, and the tasks of workers and of run_sync callers may be cancelled.
NextCancel ==
  \/ Next
  \/ \E w \in WorkerIds : CancelWorker(w)
  \/ \E j \in JobIds : CancelCaller(j)

SpecCancel == InitLoaded /\ [][NextCancel]_vars

\* Spec under the scheduling of the event loop: a worker task that can run
\* is run, and an awaited capability returns or raises.
WorkerStep(w) ==
  \/ WorkerLoop(w)
  \/ WorkerWake(w)
  \/ WorkerDispatch(w)
  \/ \E o \in CapOutcomes : WorkerFinish(w, o)

MaxWorkers == MaxCalls * max_workers

LiveSpec ==
  /\ InitLoaded
  /\ [][Next]_vars
  /\ \A w \in 1..MaxWorkers : WF_vars(WorkerStep(w))

\* One start of the pool and a few jobs of every task kind, payload and
\* feature-flag setting.
MaxDispatchJobs == 1

NextDispatch ==
  \/ workers = <<>> /\ Start
  \/ \E t \in TaskInputs, p \in PayloadInputs :
       Len(jobs) < MaxDispatchJobs /\ Enqueue(t, p)
  \/ \E t \in TaskInputs, p \in PayloadInputs :
       Len(jobs) < MaxDispatchJobs /\ RunSyncCall(t, p)
  \/ \E j \in JobIds : RunSyncDispatch(j)
  \/ \E j \in JobIds, o \in CapOutcomes : RunSyncFinish(j, o)
  \/ \E w \in WorkerIds : WorkerLoop(w)
  \/ \E w \in WorkerIds : WorkerWake(w)
  \/ \E w \in WorkerIds : WorkerDispatch(w)
  \/ \E w \in WorkerIds, o \in CapOutcomes : WorkerFinish(w, o)

SpecDispatch == Init /\ [][NextDispatch]_vars

\* ------------------------------------------------ WebParser.parse_many
\* Settings.crawler_max_concurrent, and the values given to it here.
crawler_max_concurrent == 5

CrawlLimits == {1, 2, crawler_max_concurrent}

\* The calls are made on at most MaxUrls urls, repeats allowed.
MaxUrls == 3

Urls == {"a.example", "b.example"}

UrlInputs == UNION {[1..n -> Urls] : n \in 0..MaxUrls}

\* How `await self.parse(url)` ends in a _bounded task: a ParseResponse, an
\* Exception (parse raises RuntimeError for a crawl that failed), or the
\* CancelledError of a crawl that was cancelled, which is a BaseException.
ParseResponse(url) == [kind |-> "return", value |-> url]

CrawlFailed(url) == CapRaise("Crawl failed for " \o url)

ParseOutcomes(url) == {ParseResponse(url), CrawlFailed(url)}

\* isinstance(res, Exception)
IsException(res) == res.kind = "raise"

\* parse_many(urls) up to its gather: a semaphore of crawler_max_concurrent
\* and one _bounded task per url, none of which has run yet.
ParseManyCall(urls, limit) ==
  /\ web = None
  /\ web' = Some([urls |-> urls, sem |-> limit, pc |-> "gather",
                  tasks |-> [i \in 1..Len(urls) |-> [pc |-> "acquire", res |-> None]],
                  output |-> None])
  /\ UNCHANGED <<client, chunker, settings, running, queue, jobs, workers,
                 callers, stopper, stops, calls, execs, stamps>>

CrawlTasks == IF web = None THEN {} ELSE 1..Len(The(web).tasks)

InFlight == {i \in CrawlTasks : The(web).tasks[i].pc = "parse"}

\* `async with sem`: the task enters when the semaphore has a free slot; the
\* tasks reach the semaphore, and are woken, in the order of the urls.
Acquire(i) ==
  /\ i \in CrawlTasks
  /\ The(web).tasks[i].pc = "acquire"
  /\ \A j \in 1..(i - 1) : The(web).tasks[j].pc # "acquire"
  /\ Cardinality(InFlight) < The(web).sem
  /\ web' = Some([The(web) EXCEPT !.tasks[i].pc = "parse"])
  /\ UNCHANGED <<client, chunker, settings, running, queue, jobs, workers,
                 callers, stopper, stops, calls, execs, stamps>>

\* self.parse(url) ends in task i and the semaphore is released.
ParseEnd(i, outcome) ==
  /\ i \in CrawlTasks
  /\ The(web).tasks[i].pc = "parse"
  /\ web' = Some([The(web) EXCEPT !.tasks[i] = [pc |-> "done", res |-> Some(outcome)]])
  /\ UNCHANGED <<client, chunker, settings, running, queue, jobs, workers,
                 callers, stopper, stops, calls, execs, stamps>>

\* The loop over zip(urls, results): what is not an Exception is appended.
RECURSIVE Output(_, _)
Output(results, k) ==
  IF k > Len(results) THEN <<>>
  ELSE (IF IsException(results[k]) THEN <<>> ELSE <<results[k]>>)
       \o Output(results, k + 1)

\* gather(..., return_exceptions=True) is over when every task has ended,
\* and parse_many returns its output.
ParseManyReturn ==
  /\ web # None
  /\ The(web).pc = "gather"
  /\ \A i \in CrawlTasks : The(web).tasks[i].pc = "done"
  /\ web' = Some([The(web) EXCEPT
                    !.pc = "returned",
                    !.output = Some(Output([i \in CrawlTasks |->
                                              The(The(web).tasks[i].res)], 1))])
  /\ UNCHANGED <<client, chunker, settings, running, queue, jobs, workers,
                 callers, stopper, stops, calls, execs, stamps>>

\* One parse_many call whose crawls return or raise an Exception.
NextCrawl ==
  \/ \E urls \in UrlInputs, limit \in CrawlLimits : ParseManyCall(urls, limit)
  \/ \E i \in CrawlTasks : Acquire(i)
  \/ \E i \in CrawlTasks :
       \E outcome \in ParseOutcomes(The(web).urls[i]) : ParseEnd(i, outcome)
  \/ ParseManyReturn

SpecCrawl == InitLoaded /\ [][NextCrawl]_vars

\* The same, and a crawl may also end in CancelledError.
NextCrawlCancel ==
  \/ NextCrawl
  \/ \E i \in CrawlTasks : ParseEnd(i, Cancelled)

SpecCrawlCancel == InitLoaded /\ [][NextCrawlCancel]_vars

\* ------------------------------------------ AlchemyClient._poll, /job
\* The defaults of _poll, in seconds.
poll_interval == 1
poll_timeout == 300

\* The intervals and timeouts a caller passes: the defaults, no wait at
\* all, and short timeouts.
MaxPollTimeout == 2
PollIntervals == {0, poll_interval}
PollTimeouts == 0..MaxPollTimeout \cup {poll_timeout}

\* The jobs the server is given while a client polls.
MaxPollJobs == 1

\* How long an awaited request, or a sleep beyond its interval, may take,
\* in whole seconds of time.time().
Delays == {0, 1}

\* GET /job/{job_id}: 404 when get_job finds nothing, else the job's id,
\* status, result and error.
get_job_status(job_id) ==
  LET job == get_job(job_id) IN
    IF job = None
    THEN [code |-> 404, data |-> None]
    ELSE [code |-> 200,
          data |-> Some([job_id |-> job_id, status |-> The(job).status,
                         result |-> The(job).result, error |-> The(job).error])]

\* r.raise_for_status() on a 4xx or 5xx response.
HTTPStatusError(code) == [kind |-> "raise", type |-> "HTTPStatusError", code |-> code]

\* raise TimeoutError(...) after the loop.
PollTimeoutError == [kind |-> "raise", type |-> "TimeoutError", code |-> 0]

\* AlchemyResult(data).
AlchemyResult(data) == [kind |-> "return", value |-> data]

\* A test that takes every status for a final one.
FinalStatus_Any(status) == TRUE

\* data["status"] in ("done", "failed").
FinalStatus(status) == status \in {"done", "failed"}

\* time.time() - start after d more seconds; beyond the timeout the loop
\* test tells no two values apart, and the model keeps the timeout itself.
Elapse(c, d) == IF c.elapsed + d < c.timeout THEN c.elapsed + d ELSE c.timeout

\* _poll(job_id, interval, timeout) is called: start = time.time().
PollCall(job_id, interval, timeout) ==
  /\ client = None
  /\ client' = Some([job_id |-> job_id, interval |-> interval, timeout |-> timeout,
                     pc |-> "test", elapsed |-> 0, outcome |-> None])
  /\ UNCHANGED <<web, chunker, settings, running, queue, jobs, workers, callers,
                 stopper, stops, calls, execs, stamps>>

Polling(pc) == client # None /\ The(client).pc = pc

\* while time.time() - start < timeout: the request is sent, or the loop
\* is left and TimeoutError raised.
PollTest ==
  /\ Polling("test")
  /\ client' =
       Some(IF The(client).elapsed < The(client).timeout
            THEN [The(client) EXCEPT !.pc = "get"]
            ELSE [The(client) EXCEPT !.pc = "raised", !.outcome = Some(PollTimeoutError)])
  /\ UNCHANGED <<web, chunker, settings, running, queue, jobs, workers, callers,
                 stopper, stops, calls, execs, stamps>>

\* The awaited GET answers after d seconds with the job as it is then:
\* raise_for_status, return on a final status, else on to the sleep.
PollGet(d) ==
  /\ Polling("get")
  /\ LET c == The(client)
         r == get_job_status(c.job_id)
         t == Elapse(c, d)
     IN client' =
          Some(IF r.code # 200
               THEN [c EXCEPT !.pc = "raised", !.elapsed = t,
                              !.outcome = Some(HTTPStatusError(r.code))]
               ELSE IF FinalStatus(The(r.data).status)
               THEN [c EXCEPT !.pc = "returned", !.elapsed = t,
                              !.outcome = Some(AlchemyResult(The(r.data)))]
               ELSE [c EXCEPT !.pc = "sleep", !.elapsed = t])
  /\ UNCHANGED <<web, chunker, settings, running, queue, jobs, workers, callers,
                 stopper, stops, calls, execs, stamps>>

\* await asyncio.sleep(interval) is over, after interval + d seconds.
PollSleep(d) ==
  /\ Polling("sleep")
  /\ client' = Some([The(client) EXCEPT !.pc = "test",
                                        !.elapsed = Elapse(The(client), The(client).interval + d)])
  /\ UNCHANGED <<web, chunker, settings, running, queue, jobs, workers, callers,
                 stopper, stops, calls, execs, stamps>>

\* The server with its pool started, a few enqueued jobs, and one _poll of
\* a job id the server handed out or of one it never did (0: ids are
\* uuid4 strings, a later job never takes the id of an earlier request).
NextPoll ==
  \/ workers = <<>> /\ Start
  \/ \E i \in JobInputs : Len(jobs) < MaxPollJobs /\ Enqueue(i[1], i[2])
  \/ \E w \in WorkerIds : WorkerLoop(w)
  \/ \E w \in WorkerIds : WorkerWake(w)
  \/ \E w \in WorkerIds : WorkerDispatch(w)
  \/ \E w \in WorkerIds, o \in CapOutcomes : WorkerFinish(w, o)
  \/ \E id \in JobIds \cup {0}, interval \in PollIntervals, timeout \in PollTimeouts :
       PollCall(id, interval, timeout)
  \/ PollTest
  \/ \E d \in Delays : PollGet(d)
  \/ \E d \in Delays : PollSleep(d)

SpecPoll == InitLoaded /\ [][NextPoll]_vars

\* chunk(text) on the chunker; the queue is not involved.
\* A chunk() call that leaves the chunker with chunk_size 1.
ChunkCall_Resizing(text) ==
  /\ chunker' =
       [chunker EXCEPT !.chunk_size = 1,
                       !.calls =
          Append(@, [text |-> text,
                     chunks |-> chunk(text, chunker.chunk_size,
                                      chunker.chunk_overlap)])]
  /\ UNCHANGED <<web, client, settings, running, queue, jobs, workers, callers, stopper,
                 stops, calls, execs, stamps>>

ChunkCall(text) ==
  /\ chunker' =
       [chunker EXCEPT !.calls =
          Append(@, [text |-> text,
                     chunks |-> chunk(text, chunker.chunk_size,
                                      chunker.chunk_overlap)])]
  /\ UNCHANGED <<web, client, settings, running, queue, jobs, workers, callers, stopper,
                 stops, calls, execs, stamps>>

\* One chunk() call on a chunker of every size and overlap.
InitChunk ==
  /\ web = None
  /\ client = None
  /\ chunker \in {NewChunker(s, o) : s \in ChunkSizes, o \in ChunkOverlaps}
  /\ settings = AllLoaded
  /\ running = FALSE
  /\ queue = <<>>
  /\ jobs = <<>>
  /\ workers = <<>>
  /\ callers = <<>>
  /\ stopper = [pc |-> "idle", inflight |-> {}]
  /\ stops = 0
  /\ calls = <<>>
  /\ execs = <<>>
  /\ stamps = <<>>

NextChunk ==
  chunker.calls = <<>> /\ \E text \in TextInputs : ChunkCall(text)

SpecChunk == InitChunk /\ [][NextChunk]_vars

\* Up to MaxChunkCalls chunk() calls, one after the other, on one chunker;
\* the texts are two of a heading, a one-token and a two-token paragraph.
MaxChunkCalls == 3

RepeatPieces ==
  { <<"#", " ", "A", "\n">>,
    <<"w", "w", "w", "w", "\n", "\n">>,
    <<"v", "v", "v", "v", "v", "v", "v", "v", "\n", "\n">> }

RepeatTexts == {p \o q : p \in RepeatPieces, q \in RepeatPieces}

NextChunkRepeat ==
  Len(chunker.calls) < MaxChunkCalls /\ \E text \in RepeatTexts : ChunkCall(text)

SpecChunkRepeat == InitChunk /\ [][NextChunkRepeat]_vars

\* One chunk() call on a scenario text, with the configured size and overlap.
NextScenarioChunk ==
  chunker.calls = <<>> /\ \E text \in ScenarioTexts : ChunkCall(text)

SpecScenarioChunk == InitLoaded /\ [][NextScenarioChunk]_vars

\* One start of the pool and a batch of jobs whose capability calls all
\* return; every worker keeps being scheduled by the event loop.
ScenarioJobs == 5

Succeeds == CapReturn("response")

NextScenario ==
  \/ workers = <<>> /\ Start
  \/ Len(jobs) < ScenarioJobs /\ Enqueue("parse_document", {"content", "filename"})
  \/ \E w \in WorkerIds : WorkerLoop(w)
  \/ \E w \in WorkerIds : WorkerWake(w)
  \/ \E w \in WorkerIds : WorkerDispatch(w)
  \/ \E w \in WorkerIds : WorkerFinish(w, Succeeds)

ScenarioStep(w) ==
  WorkerLoop(w) \/ WorkerWake(w) \/ WorkerDispatch(w) \/ WorkerFinish(w, Succeeds)

SpecScenario ==
  /\ InitLoaded
  /\ [][NextScenario]_vars
  /\ \A w \in 1..max_workers : WF_vars(ScenarioStep(w))

\* ================================================================ claims
Terminal(j) == jobs[j].status \in {DONE, FAILED}
Enqueued(j) == j \in JobIds /\ callers[j].via = "enqueue"
RanSync(j) == j \in JobIds /\ callers[j].via = "run_sync"
ByWorker(j, w) == <<"worker", w>> \in execs[j]

\* C1: a job's status only ever moves PENDING -> RUNNING -> DONE or
\* PENDING -> RUNNING -> FAILED, one step at a time; DONE and FAILED are
\* never left.
C1_StatusTransitions ==
  [][\A j \in JobIds :
       \/ jobs'[j].status = jobs[j].status
       \/ <<jobs[j].status, jobs'[j].status>> \in
            {<<PENDING, RUNNING>>, <<RUNNING, DONE>>, <<RUNNING, FAILED>>}]_vars

C1_Witness ==
  \E j, k \in JobIds :
    /\ jobs[j].status = DONE /\ Enqueued(j)
    /\ jobs[k].status = FAILED /\ RanSync(k)
    /\ stopper.pc = "returned"

\* C2: completed_at is set exactly when the status is DONE or FAILED, and
\* it is written at most once, however _execute is left (the capability
\* returns, raises, or the executing task is cancelled).
C2_CompletedIffTerminal ==
  \A j \in JobIds :
    /\ (jobs[j].completed_at # None) <=> Terminal(j)
    /\ stamps[j] <= 1

\* C3: while the queue is running with a live worker, every enqueued job
\* eventually is DONE or FAILED in the registry.
WorkersRunning == running /\ \E w \in WorkerIds : workers[w].pc # "exited"

C3_EnqueuedEventuallyTerminal ==
  \A j \in 1..MaxCalls :
    Enqueued(j) ~> ((Enqueued(j) /\ Terminal(j)) \/ ~WorkersRunning)

C3_Witness ==
  \E j \in JobIds : Enqueued(j) /\ Terminal(j) /\ WorkersRunning

\* C4: a worker whose job fails (the dispatcher or the capability raises)
\* records FAILED on the job and is back at its loop test, not exited.
C4_FailureKeepsWorker ==
  [][\A w \in WorkerIds :
       (Busy(w) /\ jobs'[The(workers[w].job)].status = FAILED)
         => workers'[w].pc = "loop"]_vars

C4_Witness ==
  \E w \in WorkerIds : \E j, k \in JobIds :
    /\ j < k /\ Enqueued(j) /\ Enqueued(k)
    /\ jobs[j].status = FAILED /\ ByWorker(j, w)
    /\ jobs[k].status = DONE /\ ByWorker(k, w)

\* C5: run_sync returns exactly when the job it ran is DONE and raises
\* exactly when it is FAILED.
C5_RunSyncMatchesState ==
  \A j \in JobIds :
    (RanSync(j) /\ callers[j].pc = "done") =>
      /\ (callers[j].outcome.kind = "returned") <=> (jobs[j].status = DONE)
      /\ (callers[j].outcome.kind = "raised") <=> (jobs[j].status = FAILED)

\* C6: at most one executor ever runs _execute on a job: a job given to
\* run_sync is run by its caller alone, an enqueued job by one worker, and
\* no two workers hold the same job.
C6_OneExecutor ==
  \A j \in JobIds :
    /\ Cardinality(execs[j]) <= 1
    /\ RanSync(j) => execs[j] = {<<"caller", j>>}
    /\ Cardinality({w \in WorkerIds : workers[w].job = Some(j)}) <= 1
    /\ jobs[j].status # PENDING => execs[j] # {}

C6_Witness ==
  \E v, w \in WorkerIds : \E j \in JobIds :
    /\ v # w
    /\ workers[v].pc = "await" /\ workers[w].pc = "await"
    /\ callers[j].pc = "await"

\* C7: result is non-empty exactly for DONE jobs and error is non-empty
\* exactly for FAILED jobs.
C7_ResultErrorIffStatus ==
  \A j \in JobIds :
    /\ Truthy(jobs[j].result) <=> (jobs[j].status = DONE)
    /\ Truthy(jobs[j].error) <=> (jobs[j].status = FAILED)

\* C8: a job of an unrecognised task kind, whatever its payload and whoever
\* executes it, has no capability invoked for it, is executed once, and is
\* FAILED with the "Unknown task" message as soon as its dispatch is
\* evaluated.
Dispatching(j) ==
  \/ callers[j].pc = "dispatch"
  \/ \E w \in WorkerIds : workers[w].pc = "dispatch" /\ workers[w].job = Some(j)

C8_UnknownTaskFails ==
  \A j \in JobIds :
    jobs[j].task \notin KnownTasks =>
      /\ calls[j] = 0
      /\ Cardinality(execs[j]) <= 1 /\ stamps[j] <= 1
      /\ jobs[j].status \in {PENDING, RUNNING, FAILED}
      /\ jobs[j].status = RUNNING => Dispatching(j)
      /\ jobs[j].status = FAILED =>
           jobs[j].error = Some("Unknown task: " \o jobs[j].task)

C8_Witness ==
  \E j \in JobIds : \E w \in WorkerIds :
    /\ jobs[j].task = "bogus" /\ jobs[j].payload = PayloadKeys
    /\ jobs[j].status = FAILED /\ ByWorker(j, w)

\* C9 as the specification states it: a job lacking one of content, filename
\* (document, audio, video), content, filename, task (image) or url (web)
\* never has its capability invoked.
ClaimedKeys(task) ==
  CASE task \in {"parse_document", "parse_audio", "parse_video"} -> {"content", "filename"}
    [] task = "parse_image" -> {"content", "filename", "task"}
    [] task = "parse_web" -> {"url"}
    [] OTHER -> {}

C9_ClaimedKeysFailFast ==
  \A j \in JobIds :
    ~(ClaimedKeys(jobs[j].task) \subseteq jobs[j].payload) => calls[j] = 0

\* C9, amended: a job lacking one of content, filename (document, image,
\* audio, video) or url (web) never has its capability invoked and is FAILED
\* as soon as its dispatch is evaluated, with a non-empty error: the quoted
\* name of the first missing key when the parser is loaded.
Range(seq) == {seq[i] : i \in 1..Len(seq)}

Lacks(j) == ~(Range(RequiredKeys(jobs[j].task)) \subseteq jobs[j].payload)

FirstMissing(j) ==
  LET keys == RequiredKeys(jobs[j].task)
      i == CHOOSE n \in 1..Len(keys) :
             /\ keys[n] \notin jobs[j].payload
             /\ \A m \in 1..(n - 1) : keys[m] \in jobs[j].payload
  IN keys[i]

ParserLoaded(task) ==
  CASE task = "parse_document" -> settings.load_documents
    [] task = "parse_image" -> settings.load_documents
    [] task \in {"parse_audio", "parse_video"} -> settings.load_media
    [] task = "parse_web" -> settings.load_web
    [] OTHER -> FALSE

C9_MissingKeyFailsFast ==
  \A j \in JobIds :
    Lacks(j) =>
      /\ calls[j] = 0
      /\ jobs[j].status \in {PENDING, RUNNING, FAILED}
      /\ jobs[j].status = RUNNING => Dispatching(j)
      /\ jobs[j].status = FAILED =>
           /\ Truthy(jobs[j].error)
           /\ ParserLoaded(jobs[j].task) =>
                jobs[j].error = Some("'" \o FirstMissing(j) \o "'")

C9_Witness ==
  \E j \in JobIds :
    /\ jobs[j].task = "parse_image" /\ jobs[j].payload = {"content", "task"}
    /\ settings.load_documents
    /\ jobs[j].status = FAILED /\ jobs[j].error = Some("'filename'")

\* C10: when stop() returns, every worker task has exited and every job
\* that was running on a worker when stop() was called is DONE or FAILED.
C10_StopJoinsWorkers ==
  [][(stopper.pc = "joining" /\ stopper'.pc = "returned") =>
       /\ \A w \in WorkerIds : workers'[w].pc = "exited"
       /\ \A j \in stopper.inflight : jobs'[j].status \in {DONE, FAILED}]_vars

C10_Witness ==
  /\ stopper.pc = "returned"
  /\ stopper.inflight # {}
  /\ \A j \in stopper.inflight : Terminal(j)

\* C11: when stop() has returned, no shutdown sentinel is left in the queue.
\* (A worker leaves its loop when it takes a sentinel, so it takes at most
\* one; stop() puts as many as there are workers, so none is left exactly
\* when every worker took one.)
SentinelsIn(q) == Cardinality({i \in 1..Len(q) : q[i] = None})

C11_NoSentinelLeft ==
  stopper.pc = "returned" => SentinelsIn(queue) = 0

\* C12: queue_size() is the number of enqueued jobs no worker has taken.
PendingJobs == {j \in JobIds : Enqueued(j) /\ jobs[j].status = PENDING}

C12_QueueSizeCountsPending ==
  queue_size = Cardinality(PendingJobs)

\* C13: enqueued jobs are taken in the order they were enqueued: when a job
\* has been taken by a worker, so has every job enqueued before it.
C13_FifoPickup ==
  \A a, b \in JobIds :
    (a < b /\ Enqueued(a) /\ Enqueued(b) /\ jobs[b].status # PENDING)
      => jobs[a].status # PENDING

C13_Witness ==
  \E a, b \in JobIds : \E v, w \in WorkerIds :
    /\ a < b /\ v # w
    /\ ByWorker(a, v) /\ jobs[a].status = RUNNING
    /\ ByWorker(b, w) /\ jobs[b].status = DONE

\* C14: get_job(id) finds nothing for an id never submitted, and finds the
\* submitted job (same task and payload) for every id submitted by enqueue
\* or run_sync, from the step that submits it and in every later state.
\* callers records one entry per submission.
Submitted(id) == id \in 1..Len(callers)

C14_RegistryKeepsJobs ==
  [][\A id \in 1..(MaxCalls + 1) :
       /\ (get_job(id) # None)' <=> Submitted(id)'
       /\ get_job(id) # None =>
            /\ get_job(id)' # None
            /\ The(get_job(id)').task = The(get_job(id)).task
            /\ The(get_job(id)').payload = The(get_job(id)).payload]_vars

C14_Witness ==
  \E j, k \in JobIds :
    /\ Enqueued(j) /\ RanSync(k) /\ Terminal(j) /\ Terminal(k)
    /\ stopper.pc = "returned"
    /\ get_job(j) = Some(jobs[j]) /\ get_job(k) = Some(jobs[k])
    /\ get_job(Len(jobs) + 1) = None

\* C15: once a job is DONE or FAILED, get_job(id) returns the same job
\* (status, result, error, completed_at and all) after every later step.
C15_TerminalSnapshotStable ==
  [][\A j \in JobIds : Terminal(j) => get_job(j)' = get_job(j)]_vars

C15_Witness ==
  \E j, k \in JobIds :
    /\ jobs[j].status = DONE /\ jobs[k].status = FAILED
    /\ j < k /\ Enqueued(j) /\ Enqueued(k)
    /\ stopper.pc = "returned"
    /\ get_job(j) = Some(jobs[j])

\* C16: run_sync executes its job on the caller's task only: the job is
\* never in the queue nor held by a worker, every step that registers or
\* changes it leaves the queue (so queue_size()), the workers and all other
\* jobs as they were, and its next step is always enabled, whatever the
\* workers are doing.
RunSyncStepOn(j) ==
  /\ RanSync(j)'
  /\ (j \in JobIds => jobs'[j] # jobs[j])

C16_RunSyncInline ==
  [][/\ \A j \in 1..MaxCalls : RunSyncStepOn(j) =>
          /\ queue' = queue
          /\ workers' = workers
          /\ \A k \in JobIds \ {j} : jobs'[k] = jobs[k]
     /\ \A j \in JobIds : RanSync(j) =>
          /\ Some(j) \notin Range(queue)
          /\ \A w \in WorkerIds : workers[w].job # Some(j)
          /\ execs[j] = {<<"caller", j>>}
          /\ callers[j].pc \in {"dispatch", "await"} =>
               ENABLED (RunSyncDispatch(j) \/ \E o \in CapOutcomes : RunSyncFinish(j, o))
          /\ Terminal(j) <=> callers[j].pc = "done"]_vars

C16_Witness ==
  \E j, k \in JobIds :
    /\ RanSync(j) /\ jobs[j].status = DONE
    /\ Enqueued(k) /\ jobs[k].status = PENDING
    /\ workers = <<>> /\ queue_size = 1

\* C17: with the pool started and n succeeding jobs enqueued (n up to 5,
\* two workers), eventually queue_size() is 0 and all n jobs are DONE with
\* completed_at set.
AllDone(n) ==
  \A j \in 1..n :
    j \in JobIds /\ jobs[j].status = DONE /\ jobs[j].completed_at # None

C17_BatchDrains ==
  \A n \in 0..ScenarioJobs :
    (workers # <<>> /\ Len(jobs) = n) ~> (queue_size = 0 /\ AllDone(n))

C17_Witness ==
  /\ Len(workers) = max_workers
  /\ Len(jobs) = ScenarioJobs
  /\ queue_size = 0
  /\ AllDone(ScenarioJobs)
  /\ \E j, k \in JobIds : ByWorker(j, 1) /\ ByWorker(k, 2)

\* C18 (as claimed): the number of live workers, and of enqueued jobs
\* RUNNING at once, never exceeds max_workers.
LiveWorkers == {w \in WorkerIds : workers[w].pc # "exited"}
RunningEnqueued == {j \in JobIds : Enqueued(j) /\ jobs[j].status = RUNNING}
Starts == Len(workers) \div max_workers

ChunkCalls == {chunker.calls[c] : c \in 1..Len(chunker.calls)}

C19_IndicesContiguous ==
  \A call \in ChunkCalls :
    \A i \in 1..Len(call.chunks) : call.chunks[i].index = i - 1

\* A call with a section that went through the split path into several
\* chunks, followed by a section emitted as one chunk.
C19_Witness ==
  \E call \in ChunkCalls :
    LET sections == split_by_headings(call.text)
    IN \E a, b \in 1..Len(sections) :
         /\ a < b
         /\ estimate_tokens(sections[a].text) > chunker.chunk_size
         /\ Len(sliding_window(sections[a].text, chunker.chunk_size,
                               chunker.chunk_overlap)) > 1
         /\ estimate_tokens(sections[b].text) <= chunker.chunk_size
         /\ Len(call.chunks) > Len(sections)
         /\ call.chunks[Len(call.chunks)].index = Len(call.chunks) - 1

\* C20: chunks follow the sections in source order, the chunks of one
\* section side by side: the chunks' labels are the sections' titles, each
\* repeated once or more; and when every heading "A" of the text comes
\* before every heading "B", every chunk labelled "A" comes before every
\* chunk labelled "B".
Dedup(seq) ==
  LET firsts == Ascending({i \in 1..Len(seq) : i = 1 \/ seq[i] # seq[i - 1]})
  IN [k \in 1..Len(firsts) |-> seq[firsts[k]]]

Labels(chunks) == [i \in 1..Len(chunks) |-> chunks[i].section]

HeadingLabels(text) ==
  LET matches == finditer(text, 1)
  IN [i \in 1..Len(matches) |->
        Some(strip(SubSeq(text, matches[i].label, matches[i].last)))]

LabelA == Some(<<"A">>)
LabelB == Some(<<"B">>)

Before(seq, x, y) ==
  \A i, j \in 1..Len(seq) : (seq[i] = x /\ seq[j] = y) => i < j

C20_SectionOrder ==
  \A call \in ChunkCalls :
    /\ Dedup(Labels(call.chunks)) =
         IF Blank(call.text)
         THEN <<>>
         ELSE Dedup([k \in 1..Len(split_by_headings(call.text)) |->
                       split_by_headings(call.text)[k].title])
    /\ Before(HeadingLabels(call.text), LabelA, LabelB)
         => Before(Labels(call.chunks), LabelA, LabelB)

C20_Witness ==
  \E call \in ChunkCalls :
    /\ HeadingLabels(call.text) = <<LabelA, LabelB>>
    /\ \E i \in 1..Len(call.chunks) :
         /\ i + 2 <= Len(call.chunks)
         /\ call.chunks[i].section = LabelA
         /\ call.chunks[i + 1].section = LabelA
         /\ call.chunks[i + 2].section = LabelB

\* C21 (as claimed): with chunk_size 512 and chunk_overlap 64, heading "A",
\* about 1000 repeated words, heading "B" and "Short." give several chunks
\* labelled "A" and exactly one labelled "B", whose text is "Short.".
Labelled(chunks, label) ==
  {i \in 1..Len(chunks) : chunks[i].section = label}

ShortB(chunks) ==
  /\ Cardinality(Labelled(chunks, LabelB)) = 1
  /\ \A i \in Labelled(chunks, LabelB) :
       chunks[i].text = <<"S", "h", "o", "r", "t", ".">>
  /\ Labelled(chunks, LabelA) \cup Labelled(chunks, LabelB) = 1..Len(chunks)

C21_ScenarioSeveralA ==
  \A call \in ChunkCalls :
    Cardinality(Labelled(call.chunks, LabelA)) > 1 /\ ShortB(call.chunks)

\* C21 (amended): section "A" gives several chunks when its words are laid
\* out in two or more paragraphs and exactly one chunk when they are one
\* paragraph; "B" gives exactly one chunk, with text "Short.".
C21_ScenarioByParagraphs ==
  \A call \in ChunkCalls :
    LET body == split_by_headings(call.text)[1].text
        several == Cardinality(Labelled(call.chunks, LabelA)) > 1
    IN /\ Len(Paragraphs(body)) > 1 <=> several
       /\ Len(Paragraphs(body)) = 1 <=> ~several
       /\ Cardinality(Labelled(call.chunks, LabelA)) >= 1
       /\ ShortB(call.chunks)

C21_Witness ==
  \E call \in ChunkCalls :
    /\ chunker.chunk_size = settings_chunk_size
    /\ chunker.chunk_overlap = settings_chunk_overlap
    /\ Cardinality(Labelled(call.chunks, LabelA)) > 2
    /\ ShortB(call.chunks)

\* C22: a section whose estimate is at most chunk_size (equal included) is
\* one chunk: the whole section text, its label and its estimate; a section
\* above chunk_size is cut at paragraph boundaries: each of its chunks is a
\* run of the section's paragraphs joined by blank lines.
SectionsOf(call) ==
  IF Blank(call.text) THEN <<>> ELSE split_by_headings(call.text)

Oversized(section) == estimate_tokens(section.text) > chunker.chunk_size

ChunkCount(section) ==
  IF Oversized(section)
  THEN Len(sliding_window(section.text, chunker.chunk_size,
                          chunker.chunk_overlap))
  ELSE 1

\* The number of chunks of the sections before section k.
RECURSIVE ChunksBefore(_, _)
ChunksBefore(sections, k) ==
  IF k = 1 THEN 0
  ELSE ChunksBefore(sections, k - 1) + ChunkCount(sections[k - 1])

ChunksOfSection(sections, k) ==
  (ChunksBefore(sections, k) + 1)..ChunksBefore(sections, k + 1)

ParagraphRun(text, paras) ==
  \E a, b \in 1..Len(paras) : a <= b /\ text = Join(SubSeq(paras, a, b))

C22_SplitOnlyAboveChunkSize ==
  \A call \in ChunkCalls :
    LET sections == SectionsOf(call)
    IN /\ Len(call.chunks) = ChunksBefore(sections, Len(sections) + 1)
       /\ \A k \in 1..Len(sections) :
            \A i \in ChunksOfSection(sections, k) :
              /\ call.chunks[i].section = sections[k].title
              /\ IF Oversized(sections[k])
                 THEN ParagraphRun(call.chunks[i].text,
                                   Paragraphs(sections[k].text))
                 ELSE /\ call.chunks[i].text = strip(sections[k].text)
                      /\ call.chunks[i].tokens =
                           estimate_tokens(sections[k].text)

\* A section of two paragraphs whose estimate is exactly chunk_size, in one
\* chunk, next to a section that was split.
C22_Witness ==
  \E call \in ChunkCalls :
    LET sections == SectionsOf(call)
    IN \E j, k \in 1..Len(sections) :
         /\ estimate_tokens(sections[k].text) = chunker.chunk_size
         /\ Len(Paragraphs(sections[k].text)) > 1
         /\ ChunkCount(sections[k]) = 1
         /\ Oversized(sections[j])
         /\ ChunkCount(sections[j]) > 1

\* C23: the paragraphs that seed the window after a flush are a suffix of
\* the flushed window, in its order, whole, with estimates adding up to at
\* most chunk_overlap; the next window is that seed followed by the
\* section's next paragraphs.
WindowsOf(section) ==
  Windows(Paragraphs(section.text), 1,
          [windows |-> <<>>, current_paras |-> <<>>, current_tokens |-> 0],
          chunker.chunk_size, chunker.chunk_overlap)

Seed(window) ==
  Overlap(window, Len(window), [paras |-> <<>>, tokens |-> 0],
          chunker.chunk_overlap).paras

RECURSIVE Estimates(_)
Estimates(paras) ==
  IF paras = <<>> THEN 0
  ELSE estimate_tokens(Head(paras)) + Estimates(Tail(paras))

IsSuffix(part, whole) ==
  /\ Len(part) <= Len(whole)
  /\ part = SubSeq(whole, Len(whole) - Len(part) + 1, Len(whole))

\* The index, among the section's paragraphs, of the last paragraph of
\* window k, counting the seeds once.
RECURSIVE LastParagraph(_, _)
LastParagraph(windows, k) ==
  IF k = 0 THEN 0
  ELSE IF k = 1 THEN Len(windows[1])
  ELSE LastParagraph(windows, k - 1)
         + Len(windows[k]) - Len(Seed(windows[k - 1]))

OversizedSections ==
  UNION {{sections[k] : k \in {j \in 1..Len(sections) : Oversized(sections[j])}} :
           sections \in {SectionsOf(call) : call \in ChunkCalls}}

C23_OverlapIsBoundedSuffix ==
  \A section \in OversizedSections :
    LET windows == WindowsOf(section)
        paras == Paragraphs(section.text)
    IN /\ LastParagraph(windows, Len(windows)) = Len(paras)
       /\ \A k \in 1..(Len(windows) - 1) :
            LET seed == Seed(windows[k])
            IN /\ IsSuffix(seed, windows[k])
               /\ Estimates(seed) <= chunker.chunk_overlap
               /\ Len(seed) < Len(windows[k + 1])
               /\ windows[k + 1] =
                    seed \o SubSeq(paras, LastParagraph(windows, k) + 1,
                                   LastParagraph(windows, k + 1))

\* A flush that carries two different paragraphs over.
C23_Witness ==
  \E section \in OversizedSections :
    \E k \in 1..(Len(WindowsOf(section)) - 1) :
      LET seed == Seed(WindowsOf(section)[k])
      IN /\ Len(seed) = 2
         /\ seed[1] # seed[2]
         /\ Len(WindowsOf(section)[k]) > 2

\* C24 (as claimed): in a split section, a window that holds a paragraph
\* whose own estimate exceeds chunk_size holds nothing else.
TooBig(para) == estimate_tokens(para) > chunker.chunk_size

Fresh(windows, paras, j) ==
  SubSeq(paras, LastParagraph(windows, j - 1) + 1, LastParagraph(windows, j))

SeedBefore(windows, j) == IF j = 1 THEN <<>> ELSE Seed(windows[j - 1])

C25_WindowWithinChunkSize ==
  \A section \in OversizedSections :
    \A window \in Range(WindowsOf(section)) :
      (\A para \in Range(window) : ~TooBig(para)) =>
        Estimates(window) <= chunker.chunk_size

\* C26: chunk() returns on every text, with a sequence of DocumentChunks
\* (an integer index, a text, a section that is a label or absent, an
\* integer token count); on an empty or all-whitespace text the sequence
\* is empty.
Characters == UNION {Range(piece) : piece \in Pieces} \cup Whitespace

IsText(text) ==
  /\ DOMAIN text = 1..Len(text)
  /\ \A i \in 1..Len(text) : text[i] \in Characters

IsDocumentChunk(c) ==
  /\ DOMAIN c = {"index", "text", "section", "tokens"}
  /\ c.index \in Nat
  /\ IsText(c.text)
  /\ c.section = None \/ \E label \in Range(c.section) : IsText(label)
  /\ c.tokens \in Nat

C26_ChunkTotalEmptyOnBlank ==
  \A call \in ChunkCalls :
    /\ DOMAIN call.chunks = 1..Len(call.chunks)
    /\ \A i \in 1..Len(call.chunks) : IsDocumentChunk(call.chunks[i])
    /\ Blank(call.text) => call.chunks = <<>>

\* A call on a text of spaces, tabs or newlines only that returned.
C26_Witness ==
  \E call \in ChunkCalls :
    /\ Len(call.text) = MaxBlank
    /\ Blank(call.text)
    /\ call.chunks = <<>>

\* C27: the text of every chunk, from either path, is non-empty and neither
\* begins nor ends with whitespace; every window of a split section is a
\* non-empty run of non-empty paragraphs with no whitespace around them.
Trimmed(text) ==
  /\ text # <<>>
  /\ text[1] \notin Whitespace
  /\ text[Len(text)] \notin Whitespace

C27_ChunkTextTrimmed ==
  /\ \A call \in ChunkCalls :
       \A i \in 1..Len(call.chunks) : Trimmed(call.chunks[i].text)
  /\ \A section \in OversizedSections :
       \A window \in Range(WindowsOf(section)) :
         /\ window # <<>>
         /\ \A para \in Range(window) : Trimmed(para)

\* A heading with an empty body, a whitespace-only paragraph and a paragraph
\* with whitespace around it in a text that was split into several chunks,
\* beside a section emitted as one chunk out of a body with whitespace
\* around it.
EmptyBodies(text) ==
  LET matches == finditer(text, 1)
      sections == split_by_headings(text)
  IN Len(matches)
       - Cardinality({k \in 1..Len(sections) : sections[k].title # None})

HasRun(text, run) ==
  \E i \in 1..(Len(text) - Len(run) + 1) :
    SubSeq(text, i, i + Len(run) - 1) = run

C27_Witness ==
  \E call \in ChunkCalls :
    /\ finditer(call.text, 1) # <<>>
    /\ EmptyBodies(call.text) > 0
    /\ HasRun(call.text, <<"\n", "\n", " ", "\n", "\n">>)
    /\ HasRun(call.text, <<"\t", "x", " ", "\n">>)
    /\ \E section \in Range(SectionsOf(call)) : Oversized(section)
    /\ call.chunks # <<>>

HeadingLine(text, i) ==
  LET h == HashRun(text, i)
  IN /\ LineStart(text, i)
     /\ h \in 1..3
     /\ i + h + 1 <= Len(text)
     /\ text[i + h] \in Whitespace \ {"\n"}
     /\ text[i + h + 1] # "\n"

HeadingLines(text) == Ascending({i \in 1..Len(text) : HeadingLine(text, i)})

LineLabel(text, i) ==
  strip(SubSeq(text, i + HashRun(text, i), LineEnd(text, i)))

LineBody(text, heads, k) ==
  strip(SubSeq(text, LineEnd(text, heads[k]) + 1,
               IF k < Len(heads) THEN heads[k + 1] - 1 ELSE Len(text)))

SectionsByLines(text) ==
  LET heads == HeadingLines(text)
      preamble == strip(SubSeq(text, 1, heads[1] - 1))
      kept == Ascending({k \in 1..Len(heads) : LineBody(text, heads, k) # <<>>})
  IN IF heads = <<>>
     THEN << [title |-> None, text |-> text] >>
     ELSE (IF preamble # <<>>
           THEN << [title |-> None, text |-> preamble] >>
           ELSE <<>>)
          \o [k \in 1..Len(kept) |->
                [title |-> Some(LineLabel(text, heads[kept[k]])),
                 text |-> LineBody(text, heads, kept[k])]]

C29_HeadingSegmentation ==
  \A call \in ChunkCalls :
    ~Blank(call.text) =>
      /\ split_by_headings(call.text) = SectionsByLines(call.text)
      /\ HeadingLines(call.text) = <<>> =>
           \A i \in 1..Len(call.chunks) : call.chunks[i].section = None

\* C30: whenever _execute ends on a job, run by a worker or by run_sync,
\* the job is DONE with the value the capability returned as its result
\* exactly when the awaited _dispatch returned, and FAILED with the message
\* of the failure as its error exactly when it raised; and _execute comes
\* back to its caller without raising: the worker goes on to its loop test,
\* run_sync to its own test of job.error.
EndOutcomes(j) == CapOutcomes \cup {Cancelled, Dispatch(jobs[j], settings)}

ExecuteEnds(j, outcome) ==
  \/ RunSyncFinish(j, outcome)
  \/ outcome = Cancelled /\ CancelCaller(j)
  \/ Raises(j) /\ outcome = Dispatch(jobs[j], settings) /\ RunSyncDispatch(j)
  \/ \E w \in WorkerIds :
       /\ workers[w].job = Some(j)
       /\ \/ WorkerFinish(w, outcome)
          \/ outcome = Cancelled /\ workers[w].pc = "await" /\ CancelWorker(w)
          \/ Raises(j) /\ outcome = Dispatch(jobs[j], settings) /\ WorkerDispatch(w)

ExecuteReturned(j) ==
  /\ RanSync(j) => callers'[j].outcome.kind \in {"returned", "raised"}
  /\ \A w \in WorkerIds : workers[w].job = Some(j) => workers'[w].pc = "loop"

C30_ExecuteOutcome ==
  [][\A j \in JobIds : \A outcome \in EndOutcomes(j) :
       ExecuteEnds(j, outcome) =>
         /\ jobs'[j].status \in {DONE, FAILED}
         /\ jobs'[j].status = DONE <=> outcome.kind = "return"
         /\ outcome.kind = "return" =>
              jobs'[j].result = Some(outcome.value) /\ jobs'[j].error = None
         /\ outcome.kind = "raise" =>
              jobs'[j].error = Some(outcome.msg) /\ jobs'[j].result = None
         /\ ExecuteReturned(j)]_vars

\* C31: enqueue can be called in every state (before start, while the pool
\* runs, while stop() waits and after it has returned, whatever the length
\* of the FIFO), and a call registers the job under a new id, PENDING and
\* with no result, error or completion time, puts it at the end of the FIFO
\* behind everything already there, raises queue_size() and the number of
\* pending jobs by one, and changes nothing else.
EnqueueAccepts == \A i \in JobInputs : ENABLED Enqueue(i[1], i[2])

EnqueueEffect(task, payload) ==
  LET id == Len(jobs) + 1
  IN /\ get_job(id) = None
     /\ \E new \in JobIds' : new = id /\ get_job(new)' = Some(NewJob(task, payload))
     /\ Len(jobs') = id
     /\ \A j \in JobIds : jobs'[j] = jobs[j]
     /\ queue' = Append(queue, Some(id))
     /\ queue_size' = queue_size + 1
     /\ PendingJobs' = PendingJobs \cup {id}
     /\ UNCHANGED <<running, workers, stopper>>

C31_EnqueueAlwaysAccepted ==
  [][/\ EnqueueAccepts
     /\ EnqueueAccepts'
     /\ \A i \in JobInputs :
          Enqueue(i[1], i[2]) => EnqueueEffect(i[1], i[2])]_vars

\* A job enqueued on a stopped queue: it waits behind a sentinel that stop()
\* left, after stop() has returned, with no check of the FIFO length along
\* the way (every call of the behaviour but start and stop is an enqueue).
C31_Witness ==
  /\ stopper.pc = "returned"
  /\ ~running
  /\ Len(queue) >= 2
  /\ queue[Len(queue) - 1] = None
  /\ queue[Len(queue)] # None
  /\ jobs[The(queue[Len(queue)])].status = PENDING
  /\ \A j \in JobIds : Enqueued(j)
  /\ Calls = MaxCalls

\* C32: a parse_many call never has more than crawler_max_concurrent parse
\* invocations in flight; it returns once every url has been parsed to its
\* end, whether other urls failed or not, and what it returns is the list
\* of the responses of the urls whose parse returned, in the order of the
\* urls.
RECURSIVE Successful(_, _)
Successful(tasks, k) ==
  IF k > Len(tasks) THEN <<>>
  ELSE (IF The(tasks[k].res).kind = "return"
        THEN <<The(tasks[k].res)>> ELSE <<>>)
       \o Successful(tasks, k + 1)

C32_ParseManyBounded ==
  web # None =>
    /\ Cardinality(InFlight) <= The(web).sem
    /\ The(web).pc = "returned" =>
         /\ \A i \in CrawlTasks : The(web).tasks[i].pc = "done"
         /\ The(web).output = Some(Successful(The(web).tasks, 1))

\* C33: every job in the FIFO is in the registry under its id, PENDING and
\* untouched since it was enqueued, and is there once only: get_job finds
\* every job a worker can take.
QueuedJobs == {k \in 1..Len(queue) : queue[k] # None}

C33_QueuedJobsRegistered ==
  \A k \in QueuedJobs :
    LET id == The(queue[k])
    IN /\ get_job(id) # None
       /\ The(get_job(id)).status = PENDING
       /\ The(get_job(id)).result = None
       /\ The(get_job(id)).error = None
       /\ The(get_job(id)).completed_at = None
       /\ Enqueued(id)
       /\ \A l \in QueuedJobs : queue[l] = queue[k] => l = k

\* Two jobs wait in the FIFO, found by get_job, while one worker runs a job
\* and the other is at its loop test, about to take the first of them.
C33_Witness ==
  /\ running
  /\ Cardinality(QueuedJobs) = 2
  /\ \A k \in QueuedJobs : get_job(The(queue[k])) # None
  /\ \E w \in WorkerIds : workers[w].pc = "await"
  /\ \E w \in WorkerIds : workers[w].pc = "loop"

\* C34: once stop() has returned and until start() is called again, every
\* pool worker has ended and holds no job, no enqueued job is RUNNING, no
\* worker step is possible, and whatever else is called the jobs in the
\* FIFO stay where they are, PENDING and with every field as it was.
Stopped == stopper.pc = "returned" /\ ~running

PoolQuiet ==
  /\ \A w \in WorkerIds : workers[w].pc = "exited" /\ workers[w].job = None
  /\ \A w \in WorkerIds : ~ENABLED WorkerStep(w)
  /\ RunningEnqueued = {}

C34_QuietAfterStop ==
  [][/\ Stopped => PoolQuiet
     /\ Stopped' => PoolQuiet'
     /\ (Stopped /\ Stopped') =>
          \A k \in QueuedJobs :
            /\ k \in QueuedJobs'
            /\ queue'[k] = queue[k]
            /\ jobs'[The(queue[k])] = jobs[The(queue[k])]
            /\ jobs'[The(queue[k])].status = PENDING]_vars

\* stop() has returned on a pool that ran a job, no start() since, and a
\* job enqueued before the stop is still in the FIFO, ahead of the sentinels.
C34_Witness ==
  /\ Stopped
  /\ workers # <<>>
  /\ \E j \in JobIds : Enqueued(j) /\ jobs[j].status \in {DONE, FAILED}
  /\ \E k \in QueuedJobs : \E m \in (k + 1)..Len(queue) : queue[m] = None

\* C35: the windows of a split section are runs of consecutive paragraphs
\* of the section, in their order; together they hold every paragraph, each
\* window beginning no later than just after the end of the one before; and
\* the first new paragraph of each window lies further on in the section
\* than that of the window before.
FirstParagraph(windows, j) ==
  LastParagraph(windows, j) - Len(windows[j]) + 1

FirstNew(windows, j) == LastParagraph(windows, j - 1) + 1

C35_WindowsCoverInOrder ==
  \A section \in OversizedSections :
    LET windows == WindowsOf(section)
        paras == Paragraphs(section.text)
    IN /\ \A j \in 1..Len(windows) :
            /\ FirstParagraph(windows, j) >= 1
            /\ LastParagraph(windows, j) <= Len(paras)
            /\ windows[j] = SubSeq(paras, FirstParagraph(windows, j),
                                   LastParagraph(windows, j))
            /\ FirstParagraph(windows, j) <= FirstNew(windows, j)
            /\ FirstNew(windows, j) <= LastParagraph(windows, j)
       /\ \A j \in 1..(Len(windows) - 1) :
            FirstNew(windows, j) < FirstNew(windows, j + 1)
       /\ \A i \in 1..Len(paras) :
            \E j \in 1..Len(windows) :
              /\ FirstParagraph(windows, j) <= i
              /\ i <= LastParagraph(windows, j)
              /\ windows[j][i - FirstParagraph(windows, j) + 1] = paras[i]

\* A section of four paragraphs or more, three of them different, in three
\* windows or more, one of which begins with a paragraph of the window
\* before.
C35_Witness ==
  \E section \in OversizedSections :
    LET windows == WindowsOf(section)
        paras == Paragraphs(section.text)
    IN /\ Len(paras) >= 4
       /\ Cardinality(Range(paras)) >= 3
       /\ Len(windows) >= 3
       /\ \E j \in 2..Len(windows) :
            FirstParagraph(windows, j) < FirstNew(windows, j)

\* C36: the splitting ends for every chunk_size and chunk_overlap, a
\* chunk_overlap of chunk_size or more included: every window ends on a
\* later paragraph of the section than the window before, its last paragraph
\* being one the window before did not have, so there are at least one and
\* at most as many windows as paragraphs.
C36_WindowsProgress ==
  \A section \in OversizedSections :
    LET windows == WindowsOf(section)
        paras == Paragraphs(section.text)
    IN /\ Len(windows) >= 1
       /\ Len(windows) <= Len(paras)
       /\ \A j \in 1..Len(windows) :
            /\ LastParagraph(windows, j - 1) < LastParagraph(windows, j)
            /\ LastParagraph(windows, j) <= Len(paras)
            /\ windows[j][Len(windows[j])] = paras[LastParagraph(windows, j)]

\* chunk_overlap is chunk_size or more, each window carries the whole of
\* the window before along, and there are as many windows as paragraphs.
C36_Witness ==
  /\ chunker.chunk_overlap >= chunker.chunk_size
  /\ \E section \in OversizedSections :
       LET windows == WindowsOf(section)
       IN /\ Len(windows) >= 3
          /\ Len(windows) = Len(Paragraphs(section.text))
          /\ \E j \in 1..(Len(windows) - 1) : Seed(windows[j]) = windows[j]

\* C37: a job whose task kind needs a parser the feature flags did not load
\* (the image parser goes with the documents flag) has no capability invoked
\* for it, is RUNNING only while its dispatch is being evaluated, and is
\* FAILED with the parser's "not loaded" message as its error once it is;
\* the worker that executed it has not left its loop and no longer holds it.
NotLoadedMessage(task) ==
  CASE task = "parse_document" ->
         "Document parser not loaded. Start server with --documents flag."
    [] task = "parse_image" -> "Image parser not loaded."
    [] task \in {"parse_audio", "parse_video"} ->
         "Media parser not loaded. Start server with --media flag."
    [] task = "parse_web" -> "Web parser not loaded. Start server with --web flag."
    [] OTHER -> ""

NeedsUnloaded(j) == jobs[j].task \in KnownTasks /\ ~ParserLoaded(jobs[j].task)

C37_UnloadedParserFails ==
  \A j \in JobIds :
    NeedsUnloaded(j) =>
      /\ calls[j] = 0
      /\ jobs[j].status \in {PENDING, RUNNING, FAILED}
      /\ jobs[j].status = RUNNING => Dispatching(j)
      /\ jobs[j].status = FAILED =>
           /\ jobs[j].error = Some(NotLoadedMessage(jobs[j].task))
           /\ jobs[j].result = None
      /\ \A w \in WorkerIds :
           ByWorker(j, w) =>
             /\ workers[w].pc # "exited"
             /\ jobs[j].status = FAILED => workers[w].job # Some(j)

C37_Witness ==
  \E j \in JobIds : \E w \in WorkerIds :
    /\ jobs[j].task = "parse_image" /\ jobs[j].payload = PayloadKeys
    /\ ~settings.load_documents /\ settings.load_media /\ settings.load_web
    /\ jobs[j].status = FAILED /\ jobs[j].error = Some("Image parser not loaded.")
    /\ ByWorker(j, w) /\ workers[w].pc = "loop"

\* C38: _poll(job_id) of a registered job ends only by returning a result
\* whose status is "done" or "failed" (the job's own final status, result
\* and error), or by raising TimeoutError at a loop test that found the
\* timeout used up; a response with status pending or running sends it to
\* the sleep and from there to the next loop test, which polls again while
\* the timeout is not used up.
PollEnded ==
  client # None =>
    LET c == The(client) IN
      /\ c.pc \notin {"returned", "raised"} => c.outcome = None
      /\ c.pc = "returned" =>
           /\ c.job_id \in JobIds
           /\ c.outcome =
                Some([kind |-> "return",
                      value |-> [job_id |-> c.job_id,
                                 status |-> jobs[c.job_id].status,
                                 result |-> jobs[c.job_id].result,
                                 error |-> jobs[c.job_id].error]])
           /\ jobs[c.job_id].status \in {DONE, FAILED}
      /\ (c.pc = "raised" /\ c.job_id \in JobIds) =>
           /\ c.outcome = Some([kind |-> "raise", type |-> "TimeoutError", code |-> 0])
           /\ c.elapsed >= c.timeout

PollStep ==
  (client # None /\ client' # client) =>
    LET c == The(client)
        n == The(client')
    IN /\ n.job_id = c.job_id /\ n.interval = c.interval /\ n.timeout = c.timeout
       /\ n.elapsed >= c.elapsed
       /\ c.pc \notin {"returned", "raised"}
       /\ c.pc = "test" => n.pc = (IF c.elapsed < c.timeout THEN "get" ELSE "raised")
       /\ (c.pc = "get" /\ c.job_id \in JobIds) =>
            n.pc = (IF jobs[c.job_id].status \in {PENDING, RUNNING}
                    THEN "sleep" ELSE "returned")
       /\ c.pc = "sleep" => n.pc = "test"

C38_PollReturnsFinalOrTimesOut == [][PollEnded /\ PollEnded' /\ PollStep]_vars

C38_Witness ==
  /\ Polling("returned")
  /\ The(client).interval = poll_interval /\ The(client).timeout = poll_timeout
  /\ The(client).elapsed >= 2
  /\ The(The(client).outcome).value.status = DONE

\* A _poll with the default timeout that met a running job each time.
C38_TimedOut ==
  /\ Polling("raised")
  /\ The(client).timeout = poll_timeout /\ The(client).job_id \in JobIds
  /\ jobs[The(client).job_id].status = RUNNING

====
